---- MODULE Spec2Model ----
(***************************************************************************)
(* The phase coordinator of src/firestore_listener.py: several worker      *)
(* processes watch one shared player document and run the image, video     *)
(* and email phases on it under a lease (lockOwner, lockAt, heartbeatAt).  *)
(*                                                                         *)
(* One document is modelled (the protocol is per document).  Every access  *)
(* to the document store is one atomic step: a ref.get(), a transaction,   *)
(* a merge write.  The steps of one worker are ordered by pc; the steps    *)
(* of different workers and of the heartbeat threads interleave freely.    *)
(* The clocks of the workers and of the store are taken to agree.  Time is *)
(* kept relative to the present instant: the clock reads UtcNow = 0 in     *)
(* every state, and a clock step of d seconds moves every stored timestamp *)
(* d seconds into the past.  The code only ever compares the age of a      *)
(* timestamp with the TTL, so ages beyond the TTL are kept as TTL + 1.     *)
(***************************************************************************)
EXTENDS Integers, FiniteSets, Sequences, TLC

\* ---------------------------------------------------------------- bounds
Workers == {"w1", "w2"}

\* How many worker processes may die.
MaxCrashes == 1

\* The documents of the collection that one callback is followed over.
Items == {"a", "b"}

\* How many change notifications that callback thread receives.
MaxNotifications == 2

\* SpecFresh: the clock readings tried are 0, 1000, ..., 1000 * MaxNow.
MaxNow == 2

\* ------------------------------------------------------------- constants
LOCK_TTL_SECONDS == 900

\* _utcnow() and SERVER_TIMESTAMP: the present instant, the origin of time.
UtcNow == 0

RETRY_DELAYS_SECONDS == <<2, 5, 12>>

\* The oldest timestamp told apart: every older one is expired just the same.
Oldest == UtcNow - (LOCK_TTL_SECONDS + 1)

\* A clock step: exactly the TTL (a lease of that age is still fresh) or
\* one second more (expired).
TickSteps == {LOCK_TTL_SECONDS, LOCK_TTL_SECONDS + 1}

\* A field that is absent from the document (data.get(..) is None).
None == "none"

\* No exception, no result, no message: each of them is a tuple <<fn, k>>.
Nothing == <<>>

Phases == {"image", "video", "email"}

Processing(p) ==
    CASE p = "image" -> "processing_image"
      [] p = "video" -> "processing_video"
      [] p = "email" -> "processing_email"

ProcessingStatuses == {"processing_image", "processing_video", "processing_email"}

ErrorStatuses == {"error_image", "error_video", "error_email"}

NoTry ==
    [w |-> None, desired |-> None, status |-> None, owner |-> None,
     lockAt |-> {}, heartbeatAt |-> {}, ok |-> FALSE]

NoBurst == [desired |-> None, pre |-> FALSE, ws |-> {}, oks |-> 0]

NoObs == [error |-> None, stale |-> None]

Quiet == [by |-> None, owner |-> None]

VARIABLES
    doc,          \* the player document in the store
    created,      \* the intake has written the document
    alive,        \* alive[w]: worker process w is running
    initialized,  \* the module flag _initialized of each worker
    pending,      \* pending[w]: a change of the document not yet notified to w
    pc,           \* the position of each worker's callback thread
    hb,           \* the heartbeat thread of each worker: off, on, late
    lastTry,      \* history: the call of _try_claim_phase made by the last step
    burst,        \* history: the calls of _try_claim_phase made back to back
    lapsed,       \* history: a holder's lease has grown older than the TTL
    released,     \* history: the last lock event was a release
    obs,          \* history: what the first read of w's running dispatch observed
    lastWrite,    \* history: the write to the document applied by the last step
    mails,        \* history: how often the email claim transaction has succeeded
    docs,         \* SpecSolo: the documents of the collection
    changes,      \* SpecSolo: the changes of the notification being handled
    cb,           \* SpecSolo: the callback thread of one worker, step by step
    beat,         \* SpecSolo: the Heartbeat thread of the running phase
    log,          \* SpecSolo: history, the steps of the last phase execution
    probe         \* SpecFresh, SpecClaim, SpecField: one call of a function
                  \* and its result

\* The state of Spec: the workers racing for one document.
coord == <<doc, created, alive, initialized, pending, pc, hb,
           lastTry, burst, lapsed, released, obs, lastWrite, mails>>

\* The state of SpecSolo: one callback thread, every step of it.
solo == <<docs, changes, cb, beat, log>>

vars == <<coord, solo, probe>>

\* A step that is no call of _try_claim_phase ends the run of such calls.
NoCall == lastTry' = NoTry /\ burst' = NoBurst

\* ------------------------------------------------------------ the document
\* Timestamps are sets: {} is an absent field, {t} the time t.
NoDoc ==
    [status |-> None, lockOwner |-> None, lockAt |-> {}, heartbeatAt |-> {},
     heroURL |-> None, cardURL |-> None, videoURL |-> None, videoRawURL |-> None,
     emailSent |-> FALSE, emailError |-> FALSE, emailSending |-> FALSE,
     inputs |-> FALSE, email |-> FALSE]

Val(ts) == CHOOSE t \in ts : TRUE

\* mutant of _freshness_timestamp: "return la or hb", lockAt whenever it
\* is present.
LockAtFirst(lock_at, heartbeat_at) ==
    IF lock_at # {} THEN lock_at ELSE heartbeat_at

\* "Use whichever is newer: lockAt or heartbeatAt."
_freshness_timestamp(lock_at, heartbeat_at) ==
    IF lock_at # {} /\ heartbeat_at # {}
    THEN (IF Val(heartbeat_at) > Val(lock_at) THEN heartbeat_at ELSE lock_at)
    ELSE (IF heartbeat_at # {} THEN heartbeat_at ELSE lock_at)

ExpiredAtTtl(lock_at, heartbeat_at) ==
    LET fresh == _freshness_timestamp(lock_at, heartbeat_at)
    IN  IF fresh = {} THEN TRUE ELSE (UtcNow - Val(fresh)) >= LOCK_TTL_SECONDS

_is_lock_expired(lock_at, heartbeat_at) ==
    LET fresh == _freshness_timestamp(lock_at, heartbeat_at)
    IN  IF fresh = {} THEN TRUE ELSE (UtcNow - Val(fresh)) > LOCK_TTL_SECONDS

LockedBySelf(d, w) ==
    /\ d.lockOwner # None
    /\ d.lockOwner = w
    /\ ~_is_lock_expired(d.lockAt, d.heartbeatAt)

\* mutant of LockedByOther: a fresh lock refuses every claimant, its owner
\* included.
LockedByAnyone(d, w) ==
    /\ d.lockOwner # None
    /\ ~_is_lock_expired(d.lockAt, d.heartbeatAt)

\* "If another worker owns it and it's still fresh, skip."
LockedByOther(d, w) ==
    /\ d.lockOwner # None
    /\ d.lockOwner # w
    /\ ~_is_lock_expired(d.lockAt, d.heartbeatAt)


\* ------------------------------------------------- _try_claim_phase._txn
NeverCurrent(d, desired_status) == FALSE

\* "if status == desired_status: return False"
DesiredIsCurrent(d, desired_status) == d.status = desired_status

InvertedStatus(d, w, desired_status) ==
    /\ DesiredIsCurrent(d, desired_status)
    /\ ~LockedByOther(d, w)

\* The value the transaction returns on the document d it read.
TryClaimOk(d, w, desired_status) ==
    /\ ~DesiredIsCurrent(d, desired_status)
    /\ ~LockedByOther(d, w)

\* mutant of ClaimFields: txn.set without merge=True, the four fields
\* replace the document.
ClaimOverwrites(d, w, desired_status) ==
    [NoDoc EXCEPT !.status = desired_status, !.lockOwner = w,
                  !.lockAt = {UtcNow}, !.heartbeatAt = {UtcNow}]

\* txn.set({status, lockOwner, lockAt, heartbeatAt}, merge=True)
ClaimFields(d, w, desired_status) ==
    [d EXCEPT !.status = desired_status, !.lockOwner = w,
              !.lockAt = {UtcNow}, !.heartbeatAt = {UtcNow}]

\* The fields _release_lock deletes.
ReleaseFields(d) ==
    [d EXCEPT !.lockOwner = None, !.lockAt = {}, !.heartbeatAt = {}]

\* ------------------------------------------------------ the phase guards
\* mutant of ImageGuard: the required inputs are not looked at.
CardOnly(st) == st.cardURL = None

\* _phase_image: "if state.card_url: return" and the required inputs.
ImageGuard(st) == st.cardURL = None /\ st.inputs

\* _phase_video: hero present, no video yet, status not error/processing.
VideoGuard(st) ==
    /\ st.heroURL # None
    /\ st.videoURL = None
    /\ st.status \notin {"error_video", "processing_video"}

\* _phase_email: address and card present, no outcome recorded.
EmailGuard(st) ==
    /\ st.email
    /\ st.cardURL # None
    /\ ~(st.emailSent \/ st.emailError)

SendingOnly(d) == d.emailSending

\* mutant of EmailClaimBlocked: the transaction does not look at
\* emailSending.
OutcomeOnly(d) == d.emailSent \/ d.emailError

\* _phase_email._txn: the outcome and in-progress flags that refuse the claim.
EmailClaimBlocked(d) == d.emailSent \/ d.emailError \/ d.emailSending

\* mutant of EmailClaimOk: the transaction looks at the flags and not at
\* the lock.
EmailFlagsOnly(d, w) == ~EmailClaimBlocked(d)

EmailClaimOk(d, w) == ~EmailClaimBlocked(d) /\ ~LockedByOther(d, w)

EmailClaimFields(d, w) ==
    [d EXCEPT !.emailSending = TRUE, !.status = "processing_email",
              !.lockOwner = w, !.lockAt = {UtcNow}, !.heartbeatAt = {UtcNow}]

\* mutant of EmailErrorFields: the error write copies emailSent: True from
\* the success write.
ErrorKeepsSent(d) ==
    [d EXCEPT !.emailSent = TRUE, !.emailError = TRUE,
              !.emailSending = FALSE, !.status = "error_email"]

\* _phase_email, except: the write that records the failed send.
EmailErrorFields(d) ==
    [d EXCEPT !.emailSent = FALSE, !.emailError = TRUE,
              !.emailSending = FALSE, !.status = "error_email"]

\* --------------------------------------------------------------- history
PhaseOfStatus(s) ==
    CASE s \in {"processing_image", "error_image"} -> "image"
      [] s \in {"processing_video", "error_video"} -> "video"
      [] s \in {"processing_email", "error_email"} -> "email"
      [] OTHER -> None

WorkPc == {"work_image", "work_video", "work_email"}

ReleasePc == {"release_image", "release_video", "release_email"}

\* w is between a successful claim and the matching release.
InPhase(w) == pc[w] \in WorkPc \cup ReleasePc

\* A merge write to the document: every running listener is notified.
Store(newdoc) ==
    /\ doc' = newdoc
    /\ pending' = [w \in Workers |-> alive[w]]

\* The step applies a write of worker w that is no claim: a write of the
\* phase body, a heartbeat or a release.  None of them is conditional on
\* the lock; owner is the lockOwner the write finds.
Wrote(w) == lastWrite' = [by |-> w, owner |-> doc.lockOwner]

\* The step applies no such write.
NoWrite == lastWrite' = Quiet

\* ------------------------------------------- one callback, step by step
\* SpecSolo follows the callback thread of one worker through
\* handle_player_change, _process_doc and the three phases statement by
\* statement: every external call, every attempt of _with_retries, the
\* except and finally blocks, and the loop of the Heartbeat thread.

\* WORKER_ID of the worker followed, and of another worker.
Self == "w1"

Other == "w2"

\* attempts = 1 + len(RETRY_DELAYS_SECONDS)
attempts == 1 + Len(RETRY_DELAYS_SECONDS)

\* mutant of SleepBefore: every retry waits the first delay.
FirstDelayAlways(attempt_i) == RETRY_DELAYS_SECONDS[1]

\* time.sleep(RETRY_DELAYS_SECONDS[attempt_i - 1]) before attempt attempt_i
\* (counted from 0 in the code, the tuple from 1 here).
SleepBefore(attempt_i) == RETRY_DELAYS_SECONDS[attempt_i]

\* mutant of LastErr: only the first exception is kept.
FirstErr(last_err, e) == IF last_err = Nothing THEN e ELSE last_err

\* except Exception as e: last_err = e
LastErr(last_err, e) == e

\* The external calls of a phase body in program order; retried tells
\* whether the call is made through _with_retries.
ExternalCalls(p) ==
    CASE p = "image" ->
           <<[fn |-> "run_player_pipeline_from_storage_url", retried |-> FALSE]>>
      [] p = "video" ->
           <<[fn |-> "download_url_to_temp", retried |-> FALSE],
             [fn |-> "generate_hockey_video_from_hero", retried |-> TRUE],
             [fn |-> "overlay_video_with_branding", retried |-> FALSE],
             [fn |-> "upload_video_to_firebase", retried |-> FALSE]>>
      [] p = "email" ->
           <<[fn |-> "send_player_result_email", retried |-> TRUE]>>

\* The phase _process_doc attempts after p.
NextPhase(p) ==
    CASE p = "image" -> "video"
      [] p = "video" -> "email"
      [] p = "email" -> None

\* A document as the intake leaves it; message stands for errorMessage,
\* videoErrorMessage and emailErrorMessage.
Fresh(inputs, email) ==
    [NoDoc EXCEPT !.inputs = inputs, !.email = email]
       @@ [message |-> Nothing, score |-> None]

\* A document on which the other worker is running the image phase.
Held ==
    [Fresh(TRUE, TRUE) EXCEPT !.status = "processing_image", !.lockOwner = Other,
                              !.lockAt = {UtcNow}, !.heartbeatAt = {UtcNow}]

\* A document whose image phase was interrupted: the other worker died and
\* its lease has expired; the game has recorded the player's score since.
Stuck ==
    [Held EXCEPT !.lockAt = {Oldest}, !.heartbeatAt = {Oldest}, !.score = "score"]

StartDocs ==
    {Fresh(inputs, email) : inputs \in BOOLEAN, email \in BOOLEAN}
       \cup {Held, Stuck}

\* change.type.name
ChangeTypes == {"ADDED", "MODIFIED", "REMOVED"}

\* The notifications delivered: one change of each document, the first
\* added or removed, the second modified or removed.
ChangeLists ==
    {<<[type |-> t1, item |-> "a"], [type |-> t2, item |-> "b"]>> :
        t1 \in ChangeTypes \ {"MODIFIED"}, t2 \in ChangeTypes \ {"ADDED"}}

\* No Heartbeat object yet.
NoBeat == [at |-> "none", item |-> None, stop |-> FALSE, last |-> None]

\* The Heartbeat thread has left _run.
Ended == [at |-> "ended", item |-> None, stop |-> TRUE, last |-> None]

\* _with_retries has not been entered.
NoRetry ==
    [sub |-> 1, attempt_i |-> 0, calls |-> 0, slept |-> <<>>,
     last_err |-> Nothing, result |-> Nothing, exc |-> Nothing, raw |-> FALSE]

\* No document has been read in the running dispatch.
NoState == Fresh(FALSE, FALSE)

\* The callback thread before the listener delivers anything.
IdleCb ==
    [n |-> 0, initialized |-> FALSE, at |-> "returned", i |-> 0, phase |-> None,
     state |-> NoState, did |-> {}, failed |-> {}, won |-> {},
     run |-> NoRetry]

SoloIdle ==
    /\ docs = [x \in Items |-> Fresh(FALSE, FALSE)]
    /\ changes = <<>>
    /\ cb = IdleCb
    /\ beat = NoBeat
    /\ log = <<>>

\* ------------------------------------------------------------------ Init
\* SpecFresh: no call of _is_lock_expired has been made.
NoProbe ==
    [now |-> 0, lock_at |-> {}, heartbeat_at |-> {}, judged |-> FALSE,
     expired |-> FALSE]

CoordInit ==
    /\ doc = NoDoc
    /\ mails = 0
    /\ created = FALSE
    /\ alive = [w \in Workers |-> TRUE]
    /\ initialized = [w \in Workers |-> FALSE]
    /\ pending = [w \in Workers |-> TRUE]
    /\ pc = [w \in Workers |-> "idle"]
    /\ hb = [w \in Workers |-> "off"]
    /\ lastTry = NoTry
    /\ burst = NoBurst
    /\ lapsed = FALSE
    /\ released = FALSE
    /\ obs = [w \in Workers |-> NoObs]
    /\ lastWrite = Quiet

Init == CoordInit /\ SoloIdle /\ probe = NoProbe

\* --------------------------------------------------------------- actions
\* The external intake creates the document with its inputs.
Intake ==
    /\ ~created
    /\ created' = TRUE
    /\ \E inputs \in BOOLEAN, email \in BOOLEAN :
          Store([NoDoc EXCEPT !.inputs = inputs, !.email = email])
    /\ NoCall
    /\ UNCHANGED <<alive, initialized, pc, hb, lapsed, released, obs>>
    /\ NoWrite
    /\ UNCHANGED <<solo, probe, mails>>

\* handle_player_change, first call: the initial snapshot is ignored.
InitialSnapshot(w) ==
    /\ alive[w] /\ pc[w] = "idle"
    /\ ~initialized[w]
    /\ pending[w]
    /\ initialized' = [initialized EXCEPT ![w] = TRUE]
    /\ pending' = [pending EXCEPT ![w] = FALSE]
    /\ NoCall
    /\ UNCHANGED <<doc, created, alive, pc, hb, lapsed, released, obs>>
    /\ NoWrite
    /\ UNCHANGED <<solo, probe, mails>>

\* What the first read of a dispatch by w observes: an error status, or a
\* processing status under the expired lease of a dead worker.
Observed(d, w) ==
    [error |-> IF d.status \in ErrorStatuses THEN PhaseOfStatus(d.status) ELSE None,
     stale |-> IF /\ d.status \in ProcessingStatuses
                  /\ d.lockOwner \notin {None, w}
                  /\ ~alive[d.lockOwner]
                  /\ _is_lock_expired(d.lockAt, d.heartbeatAt)
               THEN PhaseOfStatus(d.status) ELSE None]

\* The dispatch of w has claimed phase p: a stale phase it observed is taken.
Got(o, p) == IF o.stale = p THEN [o EXCEPT !.stale = "got"] ELSE o

\* handle_player_change -> _process_doc: the first read, the lock check and
\* the guards of _phase_image, all on the same snapshot.
Dispatch(w) ==
    /\ alive[w] /\ pc[w] = "idle"
    /\ initialized[w]
    /\ created
    /\ pending[w]
    /\ pending' = [pending EXCEPT ![w] = FALSE]
    /\ pc' = [pc EXCEPT ![w] =
                IF LockedByOther(doc, w) THEN "idle"
                ELSE IF ImageGuard(doc) THEN "claim_image"
                ELSE "read_video"]
    /\ obs' = [obs EXCEPT ![w] = IF LockedByOther(doc, w) THEN NoObs
                                  ELSE Observed(doc, w)]
    /\ NoCall
    /\ UNCHANGED <<doc, created, alive, initialized, hb, lapsed, released>>
    /\ NoWrite
    /\ UNCHANGED <<solo, probe, mails>>

\* _try_claim_phase(ref, desired_status), one transaction; on success the
\* phase starts its heartbeat thread.
TryClaim(w, p, pcOk, pcFail) ==
    LET desired == Processing(p)
        ok == TryClaimOk(doc, w, desired)
    IN  /\ lastTry' = [w |-> w, desired |-> desired, status |-> doc.status,
                       owner |-> doc.lockOwner, lockAt |-> doc.lockAt,
                       heartbeatAt |-> doc.heartbeatAt, ok |-> ok]
        /\ burst' =
              IF burst.desired = desired
              THEN [burst EXCEPT !.ws = @ \cup {w},
                                 !.oks = @ + (IF ok THEN 1 ELSE 0)]
              ELSE [desired |-> desired,
                    pre |-> /\ doc.status # desired
                            /\ \/ doc.lockOwner = None
                               \/ _is_lock_expired(doc.lockAt, doc.heartbeatAt),
                    ws |-> {w},
                    oks |-> IF ok THEN 1 ELSE 0]
        /\ IF ok
           THEN /\ Store(ClaimFields(doc, w, desired))
                /\ pc' = [pc EXCEPT ![w] = pcOk]
                /\ hb' = [hb EXCEPT ![w] = "on"]
                /\ released' = FALSE
                /\ obs' = [obs EXCEPT ![w] = Got(obs[w], p)]
           ELSE /\ pc' = [pc EXCEPT ![w] = pcFail]
                /\ UNCHANGED <<doc, pending, hb, released, obs>>
        /\ UNCHANGED <<created, alive, initialized, lapsed>>
        /\ NoWrite
        /\ UNCHANGED <<solo, probe, mails>>

ClaimImage(w) ==
    /\ alive[w] /\ pc[w] = "claim_image"
    /\ TryClaim(w, "image", "work_image", "read_video")

\* A write of the phase body, between the claim and the release.
PhaseWrite(w, newdoc, nextPc) ==
    /\ Store(newdoc)
    /\ pc' = [pc EXCEPT ![w] = nextPc]
    /\ NoCall
    /\ UNCHANGED <<created, alive, initialized, hb, lapsed, released, obs>>
    /\ Wrote(w)
    /\ UNCHANGED <<solo, probe, mails>>

\* _phase_image: the pipeline returned; heroURL, cardURL, image_done.  An
\* output URL is modelled by the worker whose run produced the artifact.
\* (The call names first_name and last_name, the parameters of the
\* run_player_pipeline_from_storage_url kept in src/main.py; against the
\* signature in src/player_pipeline.py the call raises, which is ImageFail.)
ImageSucceed(w) ==
    /\ alive[w] /\ pc[w] = "work_image"
    /\ PhaseWrite(w, [doc EXCEPT !.heroURL = w, !.cardURL = w,
                                  !.status = "image_done"], "release_image")

\* _phase_image: the pipeline raised; error_image.
ImageFail(w) ==
    /\ alive[w] /\ pc[w] = "work_image"
    /\ PhaseWrite(w, [doc EXCEPT !.status = "error_image"], "release_image")

AfterRelease(at) ==
    CASE at = "release_image" -> "read_video"
      [] at = "release_video" -> "read_email"
      [] at = "release_email" -> "idle"

\* finally: hb.stop(); _release_lock(ref).  The join waits 2 s at most, so
\* a heartbeat write in flight may still land after the release (late).
ReleaseLock(w) ==
    /\ alive[w] /\ pc[w] \in ReleasePc
    /\ Store(ReleaseFields(doc))
    /\ pc' = [pc EXCEPT ![w] = AfterRelease(pc[w])]
    /\ \E h \in {"off", "late"} : hb' = [hb EXCEPT ![w] = h]
    /\ released' = TRUE
    /\ obs' = [obs EXCEPT ![w] = IF pc'[w] = "idle" THEN NoObs ELSE @]
    /\ NoCall
    /\ UNCHANGED <<created, alive, initialized, lapsed>>
    /\ Wrote(w)
    /\ UNCHANGED <<solo, probe, mails>>

\* _process_doc: the second read and the guards of _phase_video.
ReadVideo(w) ==
    /\ alive[w] /\ pc[w] = "read_video"
    /\ pc' = [pc EXCEPT ![w] = IF VideoGuard(doc) THEN "claim_video" ELSE "read_email"]
    /\ NoCall
    /\ UNCHANGED <<doc, created, alive, initialized, pending, hb,
                   lapsed, released, obs>>
    /\ NoWrite
    /\ UNCHANGED <<solo, probe, mails>>

ClaimVideo(w) ==
    /\ alive[w] /\ pc[w] = "claim_video"
    /\ TryClaim(w, "video", "work_video", "read_email")

\* _phase_video: download, generation, overlay and upload returned.
VideoSucceed(w) ==
    /\ alive[w] /\ pc[w] = "work_video"
    /\ PhaseWrite(w, [doc EXCEPT !.videoURL = w, !.status = "video_done"],
                  "release_video")

\* _phase_video: a step raised; the raw video is uploaded when there is one.
VideoFail(w) ==
    /\ alive[w] /\ pc[w] = "work_video"
    /\ \E raw \in {doc.videoRawURL, "raw"} :
          PhaseWrite(w, [doc EXCEPT !.videoRawURL = raw, !.status = "error_video"],
                     "release_video")

\* _process_doc: the third read and the guards of _phase_email.
ReadEmail(w) ==
    /\ alive[w] /\ pc[w] = "read_email"
    /\ pc' = [pc EXCEPT ![w] = IF EmailGuard(doc) THEN "claim_email" ELSE "idle"]
    /\ obs' = [obs EXCEPT ![w] = IF pc'[w] = "idle" THEN NoObs ELSE @]
    /\ NoCall
    /\ UNCHANGED <<doc, created, alive, initialized, pending, hb, lapsed, released>>
    /\ NoWrite
    /\ UNCHANGED <<solo, probe, mails>>

\* _phase_email._txn, one transaction; on success the heartbeat starts.
ClaimEmail(w) ==
    /\ alive[w] /\ pc[w] = "claim_email"
    /\ IF EmailClaimOk(doc, w)
       THEN /\ Store(EmailClaimFields(doc, w))
            /\ pc' = [pc EXCEPT ![w] = "work_email"]
            /\ hb' = [hb EXCEPT ![w] = "on"]
            /\ released' = FALSE
            /\ mails' = mails + 1
            /\ obs' = [obs EXCEPT ![w] = Got(obs[w], "email")]
       ELSE /\ pc' = [pc EXCEPT ![w] = "idle"]
            /\ obs' = [obs EXCEPT ![w] = NoObs]
            /\ UNCHANGED <<doc, pending, hb, released, mails>>
    /\ NoCall
    /\ UNCHANGED <<created, alive, initialized, lapsed>>
    /\ NoWrite
    /\ UNCHANGED <<solo, probe>>

\* _phase_email: the transport accepted the mail.
EmailSucceed(w) ==
    /\ alive[w] /\ pc[w] = "work_email"
    /\ PhaseWrite(w, [doc EXCEPT !.emailSent = TRUE, !.emailError = FALSE,
                                  !.emailSending = FALSE, !.status = "done"],
                  "release_email")

\* _phase_email: the transport failed on every attempt.
EmailFail(w) ==
    /\ alive[w] /\ pc[w] = "work_email"
    /\ PhaseWrite(w, EmailErrorFields(doc), "release_email")

\* Heartbeat._run: ref.set({"heartbeatAt": SERVER_TIMESTAMP}, merge=True).
\* A write that fails is a write that does not happen.
HeartbeatWrite(w) ==
    /\ alive[w] /\ hb[w] \in {"on", "late"}
    /\ Store([doc EXCEPT !.heartbeatAt = {UtcNow}])
    /\ hb' = [hb EXCEPT ![w] = IF hb[w] = "late" THEN "off" ELSE "on"]
    /\ NoCall
    /\ UNCHANGED <<created, alive, initialized, pc, lapsed, released, obs>>
    /\ Wrote(w)
    /\ UNCHANGED <<solo, probe, mails>>

\* The worker process dies inside a phase; its daemon heartbeat thread dies
\* with it.  (A process that dies outside a phase only stops taking steps.)
Crash(w) ==
    /\ alive[w] /\ InPhase(w)
    /\ Cardinality({v \in Workers : ~alive[v]}) < MaxCrashes
    /\ alive' = [alive EXCEPT ![w] = FALSE]
    /\ hb' = [hb EXCEPT ![w] = "off"]
    /\ NoCall
    /\ UNCHANGED <<doc, created, initialized, pending, pc, lapsed, released, obs>>
    /\ NoWrite
    /\ UNCHANGED <<solo, probe, mails>>

\* The timestamps ts as they read d seconds later.
Aged(ts, d) == {IF t - d < Oldest THEN Oldest ELSE t - d : t \in ts}

\* Time passes.  lapsed records that the lease of a worker inside its phase
\* has grown older than the TTL (its heartbeats did not keep up).
Tick ==
    /\ \E d \in TickSteps :
          doc' = [doc EXCEPT !.lockAt = Aged(@, d), !.heartbeatAt = Aged(@, d)]
    /\ doc' # doc
    /\ lapsed' = (lapsed \/ \E w \in Workers :
                     /\ InPhase(w) /\ doc.lockOwner = w
                     /\ LET d2 == doc' IN
                        (UtcNow - Val(_freshness_timestamp(d2.lockAt, d2.heartbeatAt)))
                          > LOCK_TTL_SECONDS)
    /\ NoCall
    /\ UNCHANGED <<created, alive, initialized, pending, pc, hb, released, obs>>
    /\ NoWrite
    /\ UNCHANGED <<solo, probe, mails>>

Next ==
    \/ Intake
    \/ Tick
    \/ \E w \in Workers :
          \/ InitialSnapshot(w)
          \/ Dispatch(w)
          \/ ClaimImage(w)
          \/ ImageSucceed(w)
          \/ ImageFail(w)
          \/ ReadVideo(w)
          \/ ClaimVideo(w)
          \/ VideoSucceed(w)
          \/ VideoFail(w)
          \/ ReadEmail(w)
          \/ ClaimEmail(w)
          \/ EmailSucceed(w)
          \/ EmailFail(w)
          \/ ReleaseLock(w)
          \/ HeartbeatWrite(w)
          \/ Crash(w)

Spec == Init /\ [][Next]_vars

\* The steps of worker w's callback thread when no external call fails.
Smooth(w) ==
    \/ InitialSnapshot(w)
    \/ Dispatch(w)
    \/ ClaimImage(w)
    \/ ImageSucceed(w)
    \/ ReadVideo(w)
    \/ ClaimVideo(w)
    \/ VideoSucceed(w)
    \/ ReadEmail(w)
    \/ ClaimEmail(w)
    \/ EmailSucceed(w)
    \/ ReleaseLock(w)

\* The workers with no crash, no failing external call and no lease that
\* grows old: the premises of the liveness claim.
LiveNext ==
    \/ Intake
    \/ \E w \in Workers : Smooth(w)
    \/ \E w \in Workers : HeartbeatWrite(w)

\* Every worker's callback thread is scheduled again and again, and a
\* pending notification is delivered (Dispatch is the delivery).
SpecLive == Init /\ [][LiveNext]_vars /\ \A w \in Workers : WF_vars(Smooth(w))

\* ------------------------------------------------------ SpecSolo actions
\* The document of the change being handled.
Item == changes[cb.i].item

Put(newdoc) == docs' = [docs EXCEPT ![Item] = newdoc]

\* The listener delivers a notification to the callback.
Notify ==
    /\ cb.at = "returned"
    /\ cb.n < MaxNotifications
    /\ \E cl \in ChangeLists : changes' = cl
    /\ cb' = [cb EXCEPT !.n = @ + 1, !.at = "entry", !.i = 0, !.phase = None,
                        !.did = {}, !.failed = {}, !.won = {}, !.run = NoRetry]
    /\ UNCHANGED <<docs, beat, log>>
    /\ UNCHANGED <<coord, probe>>

\* mutant of IsInitial: the flag is never consulted.
NeverInitial(c) == FALSE

\* if not _initialized:
IsInitial(c) == ~c.initialized

\* handle_player_change: the first call only sets _initialized.
Handle ==
    /\ cb.at = "entry"
    /\ cb' = IF IsInitial(cb)
             THEN [cb EXCEPT !.initialized = TRUE, !.at = "returned"]
             ELSE [cb EXCEPT !.at = "loop", !.i = 1]
    /\ UNCHANGED <<docs, changes, beat, log>>
    /\ UNCHANGED <<coord, probe>>

\* for change in changes: REMOVED changes are skipped, the others go to
\* _process_doc.
NextChange ==
    /\ cb.at = "loop"
    /\ cb' = IF cb.i > Len(changes) THEN [cb EXCEPT !.at = "returned"]
             ELSE IF changes[cb.i].type = "REMOVED" THEN [cb EXCEPT !.i = @ + 1]
             ELSE [cb EXCEPT !.at = "read", !.phase = "image",
                             !.did = @ \cup {<<cb.i, "doc">>}]
    /\ UNCHANGED <<docs, changes, beat, log>>
    /\ UNCHANGED <<coord, probe>>

\* mutant of Onward: a dispatch whose phase failed is given up.
StopOnError(c) ==
    IF NextPhase(c.phase) = None \/ c.run.exc # Nothing
    THEN [c EXCEPT !.at = "loop", !.i = @ + 1, !.phase = None, !.state = NoState,
                   !.run = NoRetry]
    ELSE [c EXCEPT !.at = "read", !.phase = NextPhase(c.phase), !.run = NoRetry]

\* _process_doc after a phase function has returned: the next phase, or
\* after _phase_email the next change.
Onward(c) ==
    IF NextPhase(c.phase) = None
    THEN [c EXCEPT !.at = "loop", !.i = @ + 1, !.phase = None, !.state = NoState,
                   !.run = NoRetry]
    ELSE [c EXCEPT !.at = "read", !.phase = NextPhase(c.phase), !.run = NoRetry]

Guard(p, d) ==
    CASE p = "image" -> ImageGuard(d)
      [] p = "video" -> VideoGuard(d)
      [] p = "email" -> EmailGuard(d)

\* mutant of Reread: the state read before the image phase is passed to
\* all three phase functions.
KeepFirstRead(c, d) == IF c.phase = "image" THEN d ELSE c.state

\* snap = ref.get(); state = _read_state(snap.to_dict()), before each phase.
Reread(c, d) == d

\* _process_doc: ref.get(), _read_state, before the image phase the lock
\* check, then the guards of the phase function on the state just read.
ReadState ==
    /\ cb.at = "read"
    /\ LET st == Reread(cb, docs[Item])
           c == [cb EXCEPT !.state = st]
       IN  cb' = IF cb.phase = "image" /\ LockedByOther(st, Self)
                 THEN [c EXCEPT !.at = "loop", !.i = @ + 1, !.phase = None, !.state = NoState]
                 ELSE IF Guard(cb.phase, st)
                 THEN [c EXCEPT !.at = "claim", !.did = @ \cup {<<cb.i, cb.phase>>}]
                 ELSE Onward([c EXCEPT !.did = @ \cup {<<cb.i, cb.phase>>}])
    /\ UNCHANGED <<docs, changes, beat, log>>
    /\ UNCHANGED <<coord, probe>>

\* _try_claim_phase, or the transaction of _phase_email.
Claim ==
    /\ cb.at = "claim"
    /\ LET d == docs[Item]
           ok == IF cb.phase = "email" THEN EmailClaimOk(d, Self)
                 ELSE TryClaimOk(d, Self, Processing(cb.phase))
       IN  IF ok
           THEN /\ Put(IF cb.phase = "email" THEN EmailClaimFields(d, Self)
                       ELSE ClaimFields(d, Self, Processing(cb.phase)))
                /\ cb' = [cb EXCEPT !.at = "start_hb", !.run = NoRetry]
                /\ log' = <<"claim">>
           ELSE /\ cb' = Onward(cb)
                /\ log' = <<>>
                /\ UNCHANGED docs
    /\ UNCHANGED <<changes, beat>>
    /\ UNCHANGED <<coord, probe>>

\* hb = Heartbeat(ref); hb.start().  The thread of an earlier phase, told
\* to stop, is followed no further (its last write is a step of Spec).
StartHb ==
    /\ cb.at = "start_hb"
    /\ beat' = [at |-> "check", item |-> Item, stop |-> FALSE, last |-> None]
    /\ log' = Append(log, "hb_start")
    /\ cb' = [cb EXCEPT !.at = "call"]
    /\ UNCHANGED <<docs, changes>>
    /\ UNCHANGED <<coord, probe>>

\* The first external call of the phase body opens the work of the phase.
Working(l) == IF l[Len(l)] = "work" THEN l ELSE Append(l, "work")

\* mutant of Caught: the phase body has no except clause, the exception
\* leaves the phase function and ends the callback.
Propagates(c) == [c EXCEPT !.at = "returned"]

\* except Exception as e: of the phase function.
Caught(c) == [c EXCEPT !.at = "except"]

\* One call of the external function the body has reached: directly, or as
\* fn() of one attempt of _with_retries.  The exception raised by call k of
\* function fn is <<fn, k>>.
Call ==
    /\ cb.at = "call"
    /\ LET r == cb.run
           c == ExternalCalls(cb.phase)[r.sub]
           k == r.calls + 1
           e == <<c.fn, k>>
       IN  \E ok \in BOOLEAN :
             cb' = IF ok
                   THEN [cb EXCEPT !.at = "called",
                                   !.run = [r EXCEPT !.calls = k, !.result = <<c.fn, k>>]]
                   ELSE IF c.retried /\ r.attempt_i + 1 < attempts
                   THEN [cb EXCEPT !.at = "sleep",
                                   !.run = [r EXCEPT !.calls = k,
                                                     !.attempt_i = @ + 1,
                                                     !.last_err = LastErr(@, e)]]
                   ELSE Caught([cb EXCEPT
                          !.failed = @ \cup {<<cb.i, cb.phase>>},
                          !.run = [r EXCEPT
                             !.calls = k,
                             !.last_err = IF c.retried THEN LastErr(@, e) ELSE @,
                             !.exc = IF c.retried THEN LastErr(r.last_err, e) ELSE e]])
    /\ log' = Working(log)
    /\ UNCHANGED <<docs, changes, beat>>
    /\ UNCHANGED <<coord, probe>>

\* _with_retries: time.sleep before the next attempt.
Sleep ==
    /\ cb.at = "sleep"
    /\ cb' = [cb EXCEPT !.at = "call",
                        !.run.slept = Append(@, SleepBefore(cb.run.attempt_i))]
    /\ UNCHANGED <<docs, changes, beat, log>>
    /\ UNCHANGED <<coord, probe>>

\* The call has returned (return fn() in _with_retries): the body goes on
\* to its next external call, or to the write of the outcome.
Proceed ==
    /\ cb.at = "called"
    /\ LET r == cb.run
           c == ExternalCalls(cb.phase)[r.sub]
       IN  cb' = IF r.sub = Len(ExternalCalls(cb.phase))
                 THEN [cb EXCEPT !.at = "write"]
                 ELSE [cb EXCEPT !.at = "call",
                                 !.run = [NoRetry EXCEPT
                                    !.sub = r.sub + 1,
                                    !.raw = r.raw \/ c.fn = "generate_hockey_video_from_hero"]]
    /\ UNCHANGED <<docs, changes, beat, log>>
    /\ UNCHANGED <<coord, probe>>

\* mutant of DoneFields: the image phase records the hero alone.
DoneWithoutCard(p, d) ==
    CASE p = "image" -> [d EXCEPT !.heroURL = Self, !.status = "image_done"]
      [] p = "video" -> [d EXCEPT !.videoURL = Self, !.status = "video_done"]
      [] p = "email" -> [d EXCEPT !.emailSent = TRUE, !.emailError = FALSE,
                                  !.emailSending = FALSE, !.status = "done"]

\* The success write of each phase.
DoneFields(p, d) ==
    CASE p = "image" -> [d EXCEPT !.heroURL = Self, !.cardURL = Self,
                                  !.status = "image_done"]
      [] p = "video" -> [d EXCEPT !.videoURL = Self, !.status = "video_done"]
      [] p = "email" -> [d EXCEPT !.emailSent = TRUE, !.emailError = FALSE,
                                  !.emailSending = FALSE, !.status = "done"]

ErrorFields(p, d, e) ==
    CASE p = "image" -> [d EXCEPT !.status = "error_image", !.message = e]
      [] p = "video" -> [d EXCEPT !.status = "error_video", !.message = e]
      [] p = "email" -> [EmailErrorFields(d) EXCEPT !.message = e]

\* The ref.set that records the success of the phase.
WriteOutcome ==
    /\ cb.at = "write"
    /\ Put(DoneFields(cb.phase, docs[Item]))
    /\ log' = Append(log, "write")
    /\ cb' = [cb EXCEPT !.at = "stop_hb", !.won = @ \cup {<<cb.i, cb.phase>>}]
    /\ UNCHANGED <<changes, beat>>
    /\ UNCHANGED <<coord, probe>>

\* The except block: _phase_video first uploads the raw video when it has
\* one (a failure of that upload is passed over); then the error write with
\* str(e).
Except ==
    /\ cb.at = "except"
    /\ \E up \in (IF cb.phase = "video" /\ cb.run.raw THEN BOOLEAN ELSE {FALSE}) :
          Put(ErrorFields(cb.phase,
                          IF up THEN [docs[Item] EXCEPT !.videoRawURL = "raw"]
                          ELSE docs[Item],
                          cb.run.exc))
    /\ log' = Append(log, "write")
    /\ cb' = [cb EXCEPT !.at = "stop_hb"]
    /\ UNCHANGED <<changes, beat>>
    /\ UNCHANGED <<coord, probe>>

\* finally: hb.stop() sets the event and joins for 2 s at most.  A thread
\* in its wait wakes up and ends within the join; a thread inside its write
\* may outlast it.
StopHb ==
    /\ cb.at = "stop_hb"
    /\ beat' = IF beat.at = "write" THEN [beat EXCEPT !.stop = TRUE] ELSE Ended
    /\ log' = Append(log, "hb_stop")
    /\ cb' = [cb EXCEPT !.at = "release"]
    /\ UNCHANGED <<docs, changes>>
    /\ UNCHANGED <<coord, probe>>

\* finally: _release_lock(ref); the phase function returns.
Release ==
    /\ cb.at = "release"
    /\ Put(ReleaseFields(docs[Item]))
    /\ log' = Append(log, "release")
    /\ cb' = Onward(cb)
    /\ UNCHANGED <<changes, beat>>
    /\ UNCHANGED <<coord, probe>>

\* Heartbeat._run: while not self._stop.is_set()
BeatCheck ==
    /\ beat.at = "check"
    /\ beat' = IF beat.stop THEN Ended ELSE [beat EXCEPT !.at = "write"]
    /\ UNCHANGED <<docs, changes, cb, log>>
    /\ UNCHANGED <<coord, probe>>

\* mutant of Swallowed: the exception ends the thread.
Dies(b) == [b EXCEPT !.at = "ended", !.last = "failed"]

\* Heartbeat._run: except Exception: pass
Swallowed(b) == [b EXCEPT !.at = "wait", !.last = "failed"]

\* Heartbeat._run: the write of heartbeatAt, which may fail.  A thread told
\* to stop during the write finds the event set in its wait and leaves.
BeatWrite ==
    /\ beat.at = "write"
    /\ \/ /\ docs' = [docs EXCEPT ![beat.item].heartbeatAt = {UtcNow}]
          /\ beat' = IF beat.stop THEN Ended
                     ELSE [beat EXCEPT !.at = "wait", !.last = "ok"]
       \/ /\ beat' = IF beat.stop THEN Ended ELSE Swallowed(beat)
          /\ UNCHANGED docs
    /\ UNCHANGED <<changes, cb, log>>
    /\ UNCHANGED <<coord, probe>>

\* Heartbeat._run: self._stop.wait(self.interval_seconds)
BeatWait ==
    /\ beat.at = "wait"
    /\ beat' = [beat EXCEPT !.at = "check", !.last = None]
    /\ UNCHANGED <<docs, changes, cb, log>>
    /\ UNCHANGED <<coord, probe>>

SoloInit ==
    /\ CoordInit
    /\ probe = NoProbe
    /\ docs \in [Items -> StartDocs]
    /\ changes = <<>>
    /\ cb = IdleCb
    /\ beat = NoBeat
    /\ log = <<>>

SoloNext ==
    \/ Notify
    \/ Handle
    \/ NextChange
    \/ ReadState
    \/ Claim
    \/ StartHb
    \/ Call
    \/ Sleep
    \/ Proceed
    \/ WriteOutcome
    \/ Except
    \/ StopHb
    \/ Release
    \/ BeatCheck
    \/ BeatWrite
    \/ BeatWait

SpecSolo == SoloInit /\ [][SoloNext]_vars

\* The steps of the callback thread.  The thread is scheduled again and
\* again, time.sleep and the 2 s join return, and (the premise of the
\* liveness claims) every external call returns or raises.
Thread ==
    \/ Handle
    \/ NextChange
    \/ ReadState
    \/ Claim
    \/ StartHb
    \/ Call
    \/ Sleep
    \/ Proceed
    \/ WriteOutcome
    \/ Except
    \/ StopHb
    \/ Release

SpecSoloLive == SoloInit /\ [][SoloNext]_vars /\ WF_vars(Thread)

\* ----------------------------------------------------- SpecFresh actions
\* The clock readings and the ages of the timestamps the calls are made with.
Nows == {1000 * k : k \in 0..MaxNow}

Ages == {-1, 0, 1, 450, 899, 900, 901, 1800}

\* A field of the document: absent, or the time that lies age before now.
Stamps(now) == {{}} \cup {{now - age} : age \in Ages}

\* (_utcnow() - fresh): the model keeps time relative to the clock reading.
Relative(ts, now) == {t - now : t \in ts}

\* _is_lock_expired(lock_at, heartbeat_at) is called and returns.
Judge ==
    /\ ~probe.judged
    /\ probe' = [probe EXCEPT
                   !.judged = TRUE,
                   !.expired = _is_lock_expired(Relative(probe.lock_at, probe.now),
                                                Relative(probe.heartbeat_at, probe.now))]
    /\ UNCHANGED <<coord, solo>>

FreshInit ==
    /\ CoordInit /\ SoloIdle
    /\ \E now \in Nows : \E la \in Stamps(now), ha \in Stamps(now) :
          probe = [now |-> now, lock_at |-> la, heartbeat_at |-> ha,
                   judged |-> FALSE, expired |-> FALSE]

FreshNext == Judge

SpecFresh == FreshInit /\ [][FreshNext]_vars

\* ----------------------------------------------------- SpecClaim actions
\* The documents a claim transaction may find: any status the listener
\* writes, no lock or the lock of either worker id, and a lease that is
\* absent, new, exactly LOCK_TTL_SECONDS old or older.
LockedDocs ==
    {[NoDoc EXCEPT !.status = st, !.lockOwner = o, !.lockAt = ts, !.heartbeatAt = ts,
                   !.heroURL = "w1", !.cardURL = "w1", !.inputs = TRUE, !.email = TRUE] :
        st \in {None, "image_done", "error_image"} \cup ProcessingStatuses,
        o \in {None} \cup Workers,
        ts \in {{}, {UtcNow}, {UtcNow - LOCK_TTL_SECONDS}, {Oldest}}}

\* _try_claim_phase(ref, desired_status) run by the process whose WORKER_ID
\* is probe.w: the transaction reads the document, decides and writes.
Transact ==
    /\ ~probe.done
    /\ LET ok == TryClaimOk(probe.d, probe.w, probe.desired)
       IN  probe' = [probe EXCEPT
                       !.done = TRUE,
                       !.ok = ok,
                       !.skip = LockedByOther(probe.d, probe.w),
                       !.after = IF ok THEN ClaimFields(probe.d, probe.w, probe.desired)
                                 ELSE probe.d]
    /\ UNCHANGED <<coord, solo>>

ClaimInit ==
    /\ CoordInit /\ SoloIdle
    /\ \E d \in LockedDocs, desired \in {"processing_image", "processing_video"} :
          probe = [d |-> d, w |-> Self, desired |-> desired, done |-> FALSE,
                   ok |-> FALSE, skip |-> FALSE, after |-> d]

ClaimNext == Transact

SpecClaim == ClaimInit /\ [][ClaimNext]_vars

\* ----------------------------------------------------- SpecField actions
\* The names under which the photo reference has been stored, in the order
\* _read_state passes them to _get_field.
SelfieNames == <<"selfieUrl", "selfieURL">>

\* What a stored field may hold: null, the empty string, a URL.
FieldValues == {None, "", "https://a", "https://b"}

\* Python truthiness of a field value ("not state.selfie_url").
Truthy(v) == v \notin {None, ""}

\* _get_field(data, *names): the value of the first name that is a key of
\* data, whatever that value is; None when no name is a key.
RECURSIVE _get_field(_, _)
_get_field(data, names) ==
    IF names = <<>> THEN None
    ELSE IF Head(names) \in DOMAIN data THEN data[Head(names)]
    ELSE _get_field(data, Tail(names))

\* The records: every subset of the aliases as keys, every value under them.
Records ==
    UNION {[keys -> FieldValues] : keys \in SUBSET {SelfieNames[i] : i \in 1..Len(SelfieNames)}}

\* _read_state(data).selfie_url and the input test of _phase_image on it.
ReadField ==
    /\ ~probe.done
    /\ LET url == _get_field(probe.data, SelfieNames)
       IN  probe' = [probe EXCEPT
                       !.done = TRUE,
                       !.selfie_url = url,
                       !.ready = /\ ~probe.card /\ probe.uploaded /\ Truthy(url)]
    /\ UNCHANGED <<coord, solo>>

FieldInit ==
    /\ CoordInit /\ SoloIdle
    /\ \E data \in Records, uploaded \in BOOLEAN, card \in BOOLEAN :
          probe = [data |-> data, uploaded |-> uploaded, card |-> card,
                   done |-> FALSE, selfie_url |-> None, ready |-> FALSE]

FieldNext == ReadField

SpecField == FieldInit /\ [][FieldNext]_vars

\* ---------------------------------------------------------------- claims
Running == {w \in Workers : InPhase(w)}

\* The newest of the timestamps ts.
Newest(ts) == CHOOSE t \in ts : \A u \in ts : u <= t

\* The last step was a call of _try_claim_phase.
Called == lastTry.w # None

\* C1: as long as no holder's lease has grown older than LOCK_TTL_SECONDS,
\* at most one worker is between a successful claim and its release.
C1_OneWorkerInPhase == ~lapsed => Cardinality(Running) <= 1

\* C1 witness: a claim is refused because another worker is inside its phase
\* under a lease that only its heartbeat has kept fresh.
C1_Witness ==
    /\ Called /\ ~lastTry.ok /\ ~lapsed
    /\ lastTry.status # lastTry.desired
    /\ lastTry.owner \in Running \ {lastTry.w}
    /\ UtcNow - Val(lastTry.lockAt) > LOCK_TTL_SECONDS

\* C2: of the calls of _try_claim_phase for one desired status that the
\* store serves back to back, starting on a document without a fresh lease
\* and with another status, exactly one returns true.
C2_ExactlyOneWinner == burst.pre => burst.oks = 1

\* C2 witness: every worker has made such a call.
C2_Witness == burst.pre /\ burst.ws = Workers

\* C3: a dispatch that finds a processing status under the expired lease of
\* a dead worker does not end before it has claimed that phase again.
C3_StaleLeaseTakenOver ==
    [][\A w \in Workers :
         (pc[w] # "idle" /\ pc'[w] = "idle") => obs[w].stale \notin Phases]_vars

\* C4: a dispatch whose first read finds error_<phase> does not claim that
\* phase and run its work again.  Stated for the runs in which no lease
\* lapses: the claim fails there already.
C4_NoRetryAfterError ==
    ~lapsed =>
        \A w \in Workers :
            /\ pc[w] = "work_image" => obs[w].error # "image"
            /\ pc[w] = "work_video" => obs[w].error # "video"
            /\ pc[w] = "work_email" => obs[w].error # "email"

Rank(s) ==
    CASE s = None -> 0
      [] s = "processing_image" -> 1
      [] s = "image_done" -> 2
      [] s = "processing_video" -> 3
      [] s = "video_done" -> 4
      [] s = "processing_email" -> 5
      [] s = "done" -> 6

Forward(s, t) ==
    \/ s = t
    \/ t \in ErrorStatuses
    \/ s \notin ErrorStatuses /\ Rank(s) <= Rank(t)

\* C5: every change of status goes forward in the order of the phases or
\* into an error status.  Stated for the runs in which no lease lapses: the
\* claim fails there already.
C5_ForwardOnly == [][~lapsed' => Forward(doc.status, doc'.status)]_vars

\* C6: from a release until the next successful claim the fields lockOwner,
\* lockAt and heartbeatAt are absent.
C6_ReleaseClears ==
    released => doc.lockOwner = None /\ doc.lockAt = {} /\ doc.heartbeatAt = {}

\* C7: while emailSent or emailError is recorded no worker is about to
\* invoke the mail transport.
C7_StickyOutcome ==
    (doc.emailSent \/ doc.emailError) => \A w \in Workers : pc[w] # "work_email"

\* C7 witness: a worker whose guard passed reaches the claim transaction
\* when the outcome is already recorded.
C7_Witness ==
    /\ doc.emailSent \/ doc.emailError
    /\ \E w \in Workers : alive[w] /\ pc[w] = "claim_email"

\* C8: a call of _try_claim_phase that reads status = desired_status returns
\* false and the caller does not go on to the phase's work.
C8_NoClaimWhenCurrent ==
    (Called /\ lastTry.status = lastTry.desired)
        => (~lastTry.ok /\ pc[lastTry.w] \notin WorkPc)

\* C8 witness: such a call on a document whose lock belongs to another
\* worker and has expired.
C8_Witness ==
    /\ Called /\ lastTry.status = lastTry.desired
    /\ lastTry.owner \notin {None, lastTry.w}
    /\ UtcNow - Newest(lastTry.lockAt \cup lastTry.heartbeatAt) > LOCK_TTL_SECONDS

\* C9: on a document locked by another worker and with another status,
\* _try_claim_phase returns true exactly when the newer of lockAt and
\* heartbeatAt is more than LOCK_TTL_SECONDS old.
C9_StealIffExpired ==
    (Called /\ lastTry.owner \notin {None, lastTry.w}
            /\ lastTry.status # lastTry.desired)
        => /\ lastTry.lockAt \cup lastTry.heartbeatAt # {}
           /\ lastTry.ok <=>
                 (UtcNow - Newest(lastTry.lockAt \cup lastTry.heartbeatAt)
                    > LOCK_TTL_SECONDS)

\* C9 witness: a lease is taken over from another worker.
C9_Witness ==
    /\ Called /\ lastTry.ok
    /\ lastTry.owner \notin {None, lastTry.w}
    /\ lastTry.status # lastTry.desired

\* C10: an output that is present is never written again with another
\* value.  Stated for the runs in which no lease lapses: the claim fails
\* there already.
C10_OutputsWriteOnce ==
    [][~lapsed' =>
         /\ doc.heroURL # None => doc'.heroURL = doc.heroURL
         /\ doc.cardURL # None => doc'.cardURL = doc.cardURL
         /\ doc.videoURL # None => doc'.videoURL = doc.videoURL]_vars

\* C11: every write of the coordinator that is no claim (an outcome, a
\* heartbeat, a lock deletion) is applied while its author is the
\* document's lockOwner.
C11_WriterHoldsLock ==
    (~lapsed /\ lastWrite.by # None) => lastWrite.owner = lastWrite.by

\* C12: a phase is claimed only when the output of the phase before it is
\* recorded: a worker holds the video phase only with heroURL present, and
\* the email phase only with videoURL present.
C12_ClaimedAfterPreviousOutput ==
    ~lapsed => \A w \in Workers :
        /\ pc[w] = "work_video" => doc.heroURL # None
        /\ pc[w] = "work_email" => doc.videoURL # None

\* C13: an error status is terminal: once status is error_image,
\* error_video or error_email no step changes it.
C13_ErrorIsTerminal ==
    [][(~lapsed' /\ doc.status \in ErrorStatuses) => doc'.status = doc.status]_vars

\* C14: emailSent and emailError are never both true.
C14_SentXorError == ~(doc.emailSent /\ doc.emailError)

C14_Witness ==
    /\ doc.emailError /\ doc.status = "error_email"
    /\ \E w \in Workers : pc[w] = "release_email" /\ lastWrite.by = w

\* The phase body is at, or inside, a call made through _with_retries.
Retrying ==
    /\ cb.at \in {"call", "sleep", "called", "except"}
    /\ ExternalCalls(cb.phase)[cb.run.sub].retried

RetriedFn == ExternalCalls(cb.phase)[cb.run.sub].fn

\* C15: _with_retries calls the wrapped function at most 4 times, waiting
\* 2, 5 and 12 s before the retries; a call is made only while none has
\* succeeded, and what is returned is the result of the call that succeeded.
C15_RetrySchedule ==
    Retrying =>
        /\ cb.run.calls <= 4
        /\ \A j \in 1..Len(cb.run.slept) : cb.run.slept[j] = <<2, 5, 12>>[j]
        /\ cb.at = "call" =>
              /\ cb.run.calls < 4
              /\ cb.run.result = Nothing
              /\ Len(cb.run.slept) = cb.run.calls
        /\ cb.at = "called" =>
              /\ cb.run.result = <<RetriedFn, cb.run.calls>>
              /\ Len(cb.run.slept) = cb.run.calls - 1

C15_Witness ==
    /\ Retrying /\ cb.at = "called"
    /\ cb.run.calls = 4
    /\ cb.run.slept = <<2, 5, 12>>

\* C16: when all 4 attempts fail, _with_retries raises the exception of the
\* fourth attempt, and the phase records error_<phase> with its message.
C16_LastErrorRecorded ==
    /\ (Retrying /\ cb.at = "except") =>
          cb.run.calls = 4 /\ cb.run.exc = <<RetriedFn, 4>>
    /\ (cb.at = "stop_hb" /\ cb.run.exc # Nothing
            /\ ExternalCalls(cb.phase)[cb.run.sub].retried) =>
          /\ PhaseOfStatus(docs[Item].status) = cb.phase
          /\ docs[Item].status \in ErrorStatuses
          /\ docs[Item].message = <<RetriedFn, 4>>

C16_Witness ==
    /\ cb.at = "stop_hb" /\ cb.phase = "email"
    /\ cb.run.exc = <<"send_player_result_email", 4>>
    /\ docs[Item].status = "error_email"

\* C17: a phase is recorded as error_<phase> only after the external call
\* that failed has been attempted 4 times.
C17_ErrorOnlyAfterRetries ==
    (cb.at = "stop_hb" /\ cb.run.exc # Nothing) => cb.run.calls = 4

\* The steps of a phase execution in program order.
PhaseSteps == <<"claim", "hb_start", "work", "write", "hb_stop", "release">>

\* The callback is outside every phase body.
Outside == cb.at \in {"returned", "entry", "loop", "read", "claim"}

\* C18: a phase execution performs claim, heartbeat start, external work,
\* outcome write, heartbeat stop and release in this order, on success and
\* on failure; a heartbeat runs only between its start after a successful
\* claim and its stop; no phase is left before the release.
C18_PhaseStepOrder ==
    /\ Len(log) <= Len(PhaseSteps)
    /\ \A j \in 1..Len(log) : log[j] = PhaseSteps[j]
    /\ Outside => log \in {<<>>, PhaseSteps}
    /\ (beat.at \in {"check", "write", "wait"} /\ ~beat.stop) =>
          (Len(log) \in 2..4 /\ docs[beat.item].lockOwner = Self)

C18_Witness ==
    /\ cb.at = "read" /\ cb.phase = "email"
    /\ log = PhaseSteps
    /\ <<cb.i, "video">> \in cb.failed
    /\ docs[Item].status = "error_video"

\* q comes after p in _process_doc.
Later(p, q) ==
    \/ p = "image" /\ q \in {"video", "email"}
    \/ p = "video" /\ q = "email"

\* C19: a failure of external work stays inside its phase: when the
\* callback returns, the lock of every failed phase is released, the
\* phases after a failed one were evaluated in the same dispatch, and
\* every change that is no removal was dispatched.
C19_FailureContained ==
    (cb.at = "returned" /\ cb.failed # {}) =>
        /\ cb.i > Len(changes)
        /\ \A j \in 1..Len(changes) :
              changes[j].type # "REMOVED" => <<j, "doc">> \in cb.did
        /\ \A f \in cb.failed :
              /\ docs[changes[f[1]].item].lockOwner = None
              /\ \A q \in Phases : Later(f[2], q) => <<f[1], q>> \in cb.did

C19_Witness ==
    /\ cb.at = "returned"
    /\ <<1, "image">> \in cb.failed
    /\ <<1, "email">> \in cb.did
    /\ <<2, "doc">> \in cb.did

\* C20: a heartbeat write that fails is passed over: the thread goes on to
\* its wait and its next write, and neither the callback thread nor the
\* document is touched.
C20_HeartbeatFailureIgnored ==
    [][(beat.at = "write" /\ beat'.at # "write" /\ beat'.last = "failed")
          => (beat'.at = "wait" /\ cb' = cb /\ docs' = docs /\ log' = log)]_vars

C20_Witness ==
    /\ beat.at = "wait" /\ beat.last = "failed" /\ ~beat.stop
    /\ cb.at = "call" /\ cb.phase = "video"
    /\ docs[Item].lockOwner = Self /\ docs[Item].status = "processing_video"

\* C21: the first notification causes no claim and no write, whatever it
\* carries; when the callback returns from a later notification, the
\* changes given to _process_doc are exactly those that are no removal.
C21_InitialSnapshotIgnored ==
    [][/\ cb'.n <= 1 =>
            (docs' = docs /\ log' = log /\ beat' = beat
               /\ cb'.at \in {"entry", "returned"})
       /\ (cb'.n >= 2 /\ cb'.at = "returned") =>
            \A j \in 1..Len(changes') :
               (<<j, "doc">> \in cb'.did) <=> (changes'[j].type # "REMOVED")
      ]_vars

C21_Witness ==
    /\ cb.n = 2 /\ cb.at = "returned"
    /\ changes[1].type = "ADDED" /\ changes[2].type = "REMOVED"
    /\ <<1, "doc">> \in cb.did
    /\ docs["a"].cardURL = Self
    /\ docs["b"] = Fresh(TRUE, TRUE)

\* C22: within one dispatch the phases are attempted in the order image,
\* video, email, and the state a phase's guards are evaluated on is read
\* when the phase before it has returned: it is the document as the store
\* holds it then, with every write made so far.
C22_OrderedPhasesOnFreshState ==
    [][/\ \A f \in cb'.did : \A p \in Phases :
             (f[2] \in Phases /\ Later(p, f[2])) => <<f[1], p>> \in cb'.did
       /\ (cb.at = "read" /\ cb'.at \in {"claim", "read"} /\ cb' # cb) =>
             cb'.state = docs[Item]
      ]_vars

C22_Witness ==
    /\ cb.at = "claim" /\ cb.phase = "email"
    /\ <<cb.i, "image">> \in cb.won /\ <<cb.i, "video">> \in cb.won
    /\ cb.state.videoURL = Self /\ cb.state.lockOwner = None

\* The callback is between the claim of its phase and the outcome write.
AtWork == cb.at \in {"start_hb", "call", "sleep", "called", "write", "except"}

\* C23: while the image work of a dispatched item runs, status is
\* processing_image and lockOwner is the dispatching worker; when the work
\* has succeeded and the phase has returned, status is image_done, heroURL
\* and cardURL are set and the lock is absent.
C23_ImageScenario ==
    /\ (cb.phase = "image" /\ AtWork) =>
          /\ docs[Item].status = "processing_image"
          /\ docs[Item].lockOwner = Self
          /\ docs[Item].lockAt # {}
    /\ (cb.phase = "video" /\ cb.at = "read" /\ <<cb.i, "image">> \in cb.won) =>
          /\ docs[Item].status = "image_done"
          /\ docs[Item].heroURL # None /\ docs[Item].cardURL # None
          /\ docs[Item].lockOwner = None /\ docs[Item].lockAt = {}

C23_Witness ==
    /\ cb.phase = "video" /\ cb.at = "read" /\ <<cb.i, "image">> \in cb.won
    /\ docs[Item].status = "image_done"
    /\ docs[Item].lockOwner = None

\* C24: the step of a successful _try_claim_phase sets status to the desired
\* status, lockOwner to the claiming worker and lockAt and heartbeatAt to
\* the current time on the document as it is at that step, and changes no
\* other field.
C24_ClaimWritesFourFields ==
    [][(lastTry'.w # None /\ lastTry'.ok) =>
          doc' = [doc EXCEPT !.status = lastTry'.desired,
                             !.lockOwner = lastTry'.w,
                             !.lockAt = {UtcNow},
                             !.heartbeatAt = {UtcNow}]
      ]_vars

C24_Witness ==
    /\ Called /\ lastTry.ok /\ lastTry.desired = "processing_video"
    /\ lastTry.owner \notin {None, lastTry.w}
    /\ doc.status = "processing_video" /\ doc.lockOwner = lastTry.w
    /\ doc.heroURL # None /\ doc.cardURL # None /\ doc.inputs

ClaimPc == {"claim_image", "claim_video", "claim_email"}

\* The document makes the claim of the phase worker w is about to claim
\* return False.
Refuses(w) ==
    LET held == /\ doc.lockOwner \notin {None, w}
                /\ UtcNow - Newest(doc.lockAt \cup doc.heartbeatAt) <= LOCK_TTL_SECONDS
    IN  CASE pc[w] = "claim_image" -> doc.status = "processing_image" \/ held
          [] pc[w] = "claim_video" -> doc.status = "processing_video" \/ held
          [] pc[w] = "claim_email" -> doc.emailSent \/ doc.emailError
                                      \/ doc.emailSending \/ held

\* C25: a claim step (_try_claim_phase, or the transaction of the email
\* phase) that does not enter the phase body leaves the document and the
\* worker's heartbeat thread as they were and goes on to what follows the
\* phase; and a claim on a document that refuses it is such a step.
C25_FailedClaimWritesNothing ==
    [][\A w \in Workers :
          (pc[w] \in ClaimPc /\ pc'[w] # pc[w]) =>
             /\ pc'[w] \notin WorkPc =>
                   /\ doc' = doc
                   /\ hb'[w] = hb[w] /\ hb'[w] # "on"
                   /\ pc'[w] = (CASE pc[w] = "claim_image" -> "read_video"
                                  [] pc[w] = "claim_video" -> "read_email"
                                  [] pc[w] = "claim_email" -> "idle")
             /\ Refuses(w) => pc'[w] \notin WorkPc
      ]_vars

C25_Witness ==
    /\ Called /\ ~lastTry.ok
    /\ lastTry.desired = "processing_video" /\ lastTry.status = "processing_video"
    /\ pc[lastTry.w] = "read_email" /\ hb[lastTry.w] # "on"
    /\ doc.status = "processing_video" /\ doc.lockOwner = lastTry.owner
    /\ doc.lockAt = lastTry.lockAt

\* The stored document lacks what phase p needs to start.
Unmet(p, d) ==
    CASE p = "image" -> ~d.inputs
      [] p = "video" -> d.heroURL = None
      [] p = "email" -> ~d.email \/ d.cardURL = None

\* C26: when the document lacks the precondition of a phase (image: selfie
\* reference, upload time, first name or gender; video: heroURL; email:
\* address or cardURL), evaluating the phase attempts no claim, writes
\* nothing, starts nothing and records no error.
C26_UnmetPreconditionIsNoOp ==
    [][(cb.at = "read" /\ cb' # cb /\ Unmet(cb.phase, docs[Item])) =>
          /\ cb'.at \notin {"claim", "start_hb", "except"}
          /\ docs' = docs /\ beat' = beat /\ log' = log
          /\ cb'.failed = cb.failed /\ cb'.won = cb.won
          /\ cb'.run = cb.run
      ]_vars

C26_Witness ==
    /\ cb.at = "read" /\ cb.phase = "email"
    /\ {<<cb.i, "image">>, <<cb.i, "video">>} \subseteq cb.did
    /\ docs[Item] = Fresh(FALSE, TRUE)
    /\ cb.failed = {} /\ cb.won = {}

\* C27: the video phase is claimed only for an item whose score is
\* available or that has waited more than 480 s since its image phase
\* succeeded.  Within one dispatch the callback does not wait between the
\* image phase and the video phase, so a video claim that follows the image
\* success of the same dispatch needs the score.
C27_WaitsForScore ==
    (cb.phase = "video" /\ cb.at = "start_hb" /\ <<cb.i, "image">> \in cb.won)
       => docs[Item].score # None

\* C28: for every clock reading and every lockAt and heartbeatAt, present
\* or absent, the lease is judged fresh exactly when a timestamp is present
\* and now minus the newer of the two is at most LOCK_TTL_SECONDS; an age of
\* exactly LOCK_TTL_SECONDS is fresh, a single timestamp is used alone and
\* no timestamp means expired.
C28_FreshIffWithinTtl ==
    probe.judged =>
        LET ts == probe.lock_at \cup probe.heartbeat_at
        IN  (~probe.expired) <=>
               (ts # {} /\ probe.now - Newest(ts) <= LOCK_TTL_SECONDS)

C28_Witness ==
    /\ probe.judged /\ ~probe.expired
    /\ probe.now = 1000
    /\ probe.lock_at = {-800} /\ probe.heartbeat_at = {100}

\* C29: the external work of a phase is not started for a document whose
\* output of that phase is recorded when the claim commits: a successful
\* claim of the image phase finds cardURL absent, one of the video phase
\* finds videoURL absent.  Stated for the runs in which no lease lapses: the
\* claim fails there already.
C29_NoWorkOnRecordedOutput ==
    (~lapsed /\ Called /\ lastTry.ok) =>
        /\ lastTry.desired = "processing_image" => doc.cardURL = None
        /\ lastTry.desired = "processing_video" => doc.videoURL = None

\* C30: the release of one worker does not remove the lock of another: when
\* worker w releases while the lock is owned by another worker that is
\* inside its phase, lockOwner is that worker after the release as before.
C30_ReleaseKeepsOthersLock ==
    [][\A w \in Workers :
          (pc[w] \in ReleasePc /\ pc'[w] # pc[w]) =>
             \A v \in Workers \ {w} :
                (doc.lockOwner = v /\ InPhase(v) /\ alive[v]) => doc'.lockOwner = v
      ]_vars

\* C31: a heartbeat write of worker w refreshes only a lease w owns: the
\* step that applies it finds lockOwner = w, never another worker and never
\* no lock.  A heartbeat is the one write that is no claim and leaves the
\* writer's position alone.  Stated for the runs in which no lease lapses:
\* the claim fails there already.
C31_HeartbeatOnOwnLease ==
    [][(~lapsed' /\ lastWrite'.by # None /\ pc' = pc) =>
          doc.lockOwner = lastWrite'.by
      ]_vars

\* C32: over the whole life of the document the claim transaction of the
\* email phase succeeds at most once, whatever the workers do and also when
\* the claiming worker dies before it records an outcome.
C32_EmailClaimedOnce == mails <= 1

\* C32 witness: the worker that claimed the email phase died before the
\* outcome write and its lease has expired; the other worker has passed the
\* guards and is at the claim transaction, which emailSending refuses.
C32_Witness ==
    /\ mails = 1
    /\ doc.emailSending /\ ~doc.emailSent /\ ~doc.emailError
    /\ _is_lock_expired(doc.lockAt, doc.heartbeatAt)
    /\ \E w \in Workers : /\ ~alive[w] /\ pc[w] = "work_email"
                          /\ doc.lockOwner = w
                          /\ \E v \in Workers \ {w} : alive[v] /\ pc[v] = "claim_email"

\* The phase whose external work a worker at position at is executing.
WorkOf(at) ==
    CASE at = "work_image" -> "image"
      [] at = "work_video" -> "video"
      [] at = "work_email" -> "email"

\* C33: whenever a running worker is executing the external work of a phase
\* it claimed, the status of the document is the processing status of that
\* phase and lockOwner is present.
C33_WorkUnderProcessingStatus ==
    \A w \in Workers :
        (alive[w] /\ pc[w] \in WorkPc) =>
            /\ doc.status = Processing(WorkOf(pc[w]))
            /\ doc.lockOwner # None

\* C34: when the worker does not crash and every external call returns or
\* raises, every successful claim is followed by the release of the lock by
\* the claiming worker: the phase execution of a claimed document reaches
\* its release step and the document is left without lockOwner.
C34_ClaimLeadsToRelease ==
    \A x \in Items :
        (cb.at = "start_hb" /\ Item = x)
           ~> (/\ Len(log) > 0 /\ log[Len(log)] = "release"
               /\ docs[x].lockOwner = None)

\* C34 witness: the mail transport failed on all four attempts, and the
\* lock has been released.
C34_Witness ==
    /\ cb.at = "loop" /\ log = PhaseSteps
    /\ <<1, "email">> \in cb.failed
    /\ docs["a"].message = <<"send_player_result_email", attempts>>
    /\ docs["a"].status = "error_email" /\ docs["a"].lockOwner = None

\* A started worker has an undelivered notification of a document with
\* complete inputs.
Notified ==
    /\ created /\ doc.inputs /\ doc.email
    /\ \E w \in Workers : initialized[w] /\ pending[w]

\* The document has gone through the three phases.
Completed ==
    /\ doc.status = "done" /\ doc.emailSent
    /\ doc.heroURL # None /\ doc.cardURL # None /\ doc.videoURL # None
    /\ doc.lockOwner = None

\* C35: with no crash and no external failure, a document with complete
\* inputs that is notified to a started worker eventually has status done,
\* emailSent, heroURL, cardURL and videoURL set and no lock, under fair
\* scheduling of the workers.
C35_ReachesDone == Notified ~> Completed

\* C36: a claim is re-entrant for the lock owner: _try_claim_phase run under
\* the worker id that is the document's lockOwner succeeds whenever status
\* differs from the desired status, however fresh the lease is, and the lock
\* check of _process_doc does not skip the document; a fresh lock refuses
\* the claim only of a different worker id.
C36_ReentrantForOwner ==
    probe.done =>
        /\ (probe.d.lockOwner = probe.w /\ probe.d.status # probe.desired) =>
               /\ probe.ok /\ ~probe.skip
               /\ probe.after.lockOwner = probe.w
               /\ probe.after.status = probe.desired
        /\ (/\ probe.d.lockOwner \notin {None, probe.w}
            /\ probe.d.lockAt # {}
            /\ UtcNow - Newest(probe.d.lockAt) <= LOCK_TTL_SECONDS) =>
               ~probe.ok /\ probe.skip /\ probe.after = probe.d

\* C36 witness: the video claim succeeds on a document that the same worker
\* id holds in the email phase under a lease written just now.
C36_Witness ==
    /\ probe.done /\ probe.ok
    /\ probe.d.lockOwner = probe.w
    /\ probe.d.lockAt = {UtcNow} /\ probe.d.heartbeatAt = {UtcNow}
    /\ probe.d.status = "processing_email" /\ probe.desired = "processing_video"
    /\ probe.after.status = "processing_video"

\* claim helper: some alias of the photo reference holds a usable value.
SomeAliasUsable ==
    \E n \in DOMAIN probe.data : Truthy(probe.data[n])

\* C37: reading the photo reference (selfieUrl, selfieURL) yields a usable
\* value whenever at least one of the aliases holds a non-empty value.
C37_AliasReadFindsValue ==
    (probe.done /\ SomeAliasUsable) => Truthy(probe.selfie_url)

\* C37, what the code does: the read returns the value under the first alias
\* that is a key of the record, usable or not.
C37_FirstPresentAliasWins ==
    probe.done =>
        /\ ("selfieUrl" \in DOMAIN probe.data) => probe.selfie_url = probe.data["selfieUrl"]
        /\ (DOMAIN probe.data = {"selfieURL"}) => probe.selfie_url = probe.data["selfieURL"]
        /\ (DOMAIN probe.data = {}) => probe.selfie_url = None

\* C37: a record whose selfieUrl is empty and whose selfieURL holds a URL is
\* read as having no photo, and the image phase is not entered.
C37_EmptyFirstAliasHidesSecond ==
    /\ probe.done
    /\ DOMAIN probe.data = {"selfieUrl", "selfieURL"}
    /\ probe.data["selfieUrl"] = "" /\ probe.data["selfieURL"] = "https://a"
    /\ probe.uploaded /\ ~probe.card
    /\ probe.selfie_url = "" /\ ~probe.ready

====
